---- MODULE Spec2Model ----
(***************************************************************************)
(* data_tools: path-addressed access to nested collections (dict / list /  *)
(* leaf), flatten / unflatten, path matching and path parsing.             *)
(*                                                                         *)
(* Python values are modelled as records:                                  *)
(*   dict  -> [k |-> "map", items |-> <<[key |-> segment, val |-> node]>>] *)
(*            (items in insertion order, keys pairwise distinct)           *)
(*   list  -> [k |-> "seq", items |-> <<node, ...>>]                       *)
(*   int   -> [k |-> "int", n |-> i]                                       *)
(*   str   -> [k |-> "str", s |-> <<"c", ...>>]  (a sequence of characters)*)
(*   None  -> [k |-> "none"]                                               *)
(* A path segment is [t |-> "str", s |-> chars], [t |-> "int", i |-> n] or *)
(* the wildcard object [t |-> "wild"] (Ellipsis).                          *)
(* A call's outcome is [exc |-> "none", val |-> v] or [exc |-> <name of    *)
(* the Python exception>, val |-> None].                                   *)
(***************************************************************************)
EXTENDS Integers, Sequences, FiniteSets, TLC

VARIABLES
    obj,    \* the caller's structure (the object passed as `obj`)
    pre,    \* the caller's structure as it was before the last call
    call,   \* the last call: its name and arguments
    res,    \* the last call's outcome
    flat    \* the entries produced by the last flatten call

vars == <<obj, pre, call, res, flat>>

-----------------------------------------------------------------------------
(* Values *)

IntLeaf(n) == [k |-> "int", n |-> n]
StrLeaf(s) == [k |-> "str", s |-> s]
NoneLeaf == [k |-> "none"]
Mapping(items) == [k |-> "map", items |-> items]
Sequence(items) == [k |-> "seq", items |-> items]

SegStr(s) == [t |-> "str", s |-> s]
SegInt(i) == [t |-> "int", i |-> i]
WILDCARD_OBJ == [t |-> "wild"]

IsContainer(node) == node.k \in {"map", "seq"}

\* Python truthiness: `not x`
Falsy(node) ==
    CASE node.k = "int" -> node.n = 0
      [] node.k = "str" -> node.s = <<>>
      [] node.k = "none" -> TRUE
      [] OTHER -> node.items = <<>>

Ok(v) == [exc |-> "none", val |-> v]
Raise(e) == [exc |-> e, val |-> NoneLeaf]

\* the module-level sentinel `_undefined`: no default was supplied
Undefined == [k |-> "undefined"]

-----------------------------------------------------------------------------
(* The container protocol of dict, list and str: obj[key], obj[key] = v,  *)
(* del obj[key], as the interpreter resolves them.                         *)

KeyIndex(items, key) ==
    IF \E j \in 1..Len(items) : items[j].key = key
    THEN CHOOSE j \in 1..Len(items) : items[j].key = key
    ELSE 0

\* a list index resolved into 1..n, or 0 when out of range
ListIndex(n, i) ==
    IF i >= 0 /\ i < n THEN i + 1
    ELSE IF i < 0 /\ i >= -n THEN n + i + 1
    ELSE 0

RemoveAt(s, j) == SubSeq(s, 1, j - 1) \o SubSeq(s, j + 1, Len(s))
ReplaceAt(s, j, v) == [s EXCEPT ![j] = v]

GetItem(node, key) ==
    CASE node.k = "map" ->
            LET j == KeyIndex(node.items, key)
            IN  IF j = 0 THEN Raise("KeyError") ELSE Ok(node.items[j].val)
      [] node.k = "seq" ->
            IF key.t # "int" THEN Raise("TypeError")
            ELSE LET j == ListIndex(Len(node.items), key.i)
                 IN  IF j = 0 THEN Raise("IndexError") ELSE Ok(node.items[j])
      [] node.k = "str" ->
            IF key.t # "int" THEN Raise("TypeError")
            ELSE LET j == ListIndex(Len(node.s), key.i)
                 IN  IF j = 0 THEN Raise("IndexError") ELSE Ok(StrLeaf(<<node.s[j]>>))
      [] OTHER -> Raise("TypeError")

SetItem(node, key, v) ==
    CASE node.k = "map" ->
            LET j == KeyIndex(node.items, key)
            IN  IF j = 0
                THEN Ok(Mapping(Append(node.items, [key |-> key, val |-> v])))
                ELSE Ok(Mapping(ReplaceAt(node.items, j, [key |-> key, val |-> v])))
      [] node.k = "seq" ->
            IF key.t # "int" THEN Raise("TypeError")
            ELSE LET j == ListIndex(Len(node.items), key.i)
                 IN  IF j = 0 THEN Raise("IndexError")
                     ELSE Ok(Sequence(ReplaceAt(node.items, j, v)))
      [] OTHER -> Raise("TypeError")

\* A slip the claims must notice: the last item is removed (pop()), whatever
\* the key names.
DelItem_PopsLast(node, key) ==
    CASE node.k = "map" ->
            IF KeyIndex(node.items, key) = 0 THEN Raise("KeyError")
            ELSE Ok(Mapping(RemoveAt(node.items, Len(node.items))))
      [] node.k = "seq" ->
            IF key.t # "int" THEN Raise("TypeError")
            ELSE IF ListIndex(Len(node.items), key.i) = 0 THEN Raise("IndexError")
            ELSE Ok(Sequence(RemoveAt(node.items, Len(node.items))))
      [] OTHER -> Raise("TypeError")

DelItem(node, key) ==
    CASE node.k = "map" ->
            LET j == KeyIndex(node.items, key)
            IN  IF j = 0 THEN Raise("KeyError")
                ELSE Ok(Mapping(RemoveAt(node.items, j)))
      [] node.k = "seq" ->
            IF key.t # "int" THEN Raise("TypeError")
            ELSE LET j == ListIndex(Len(node.items), key.i)
                 IN  IF j = 0 THEN Raise("IndexError")
                     ELSE Ok(Sequence(RemoveAt(node.items, j)))
      [] OTHER -> Raise("TypeError")

\* len(x)
PyLen(node) == IF node.k = "str" THEN Len(node.s) ELSE Len(node.items)

\* A slip the claims must notice: the mutation is made on a copy of `cur`
\* and never reaches `root`.
Rebind_OnCopy(root, where, new) == root

\* The containers are shared, not copied: `cur` is the object reached from
\* `root` along `where`, and a mutation of `cur` is seen through `root`.
\* Rebind(root, where, new) is `root` once the object at `where` has become `new`.
RECURSIVE Rebind(_, _, _)
Rebind(root, where, new) ==
    IF where = <<>> THEN new
    ELSE SetItem(root, where[1],
                 Rebind(GetItem(root, where[1]).val, Tail(where), new)).val

-----------------------------------------------------------------------------
(* parse *)

SEP_CHR == <<".">>
DigitChars == <<"0", "1", "2", "3", "4", "5", "6", "7", "8", "9">>
IsDigit(c) == \E d \in 1..10 : DigitChars[d] = c
DigitVal(c) == (CHOOSE d \in 1..10 : DigitChars[d] = c) - 1

RECURSIVE StripLeft(_)
StripLeft(s) == IF s # <<>> /\ s[1] = " " THEN StripLeft(Tail(s)) ELSE s
RECURSIVE StripRight(_)
StripRight(s) ==
    IF s # <<>> /\ s[Len(s)] = " " THEN StripRight(SubSeq(s, 1, Len(s) - 1)) ELSE s

RECURSIVE DigitsValue(_, _)
DigitsValue(ds, acc) ==
    IF ds = <<>> THEN acc
    ELSE IF ds[1] = "_" THEN DigitsValue(Tail(ds), acc)
    ELSE DigitsValue(Tail(ds), 10 * acc + DigitVal(ds[1]))

\* int(part): surrounding blanks, an optional sign, then digits that single
\* underscores may separate; [ok |-> FALSE] stands for ValueError
int(part) ==
    LET s == StripRight(StripLeft(part))
        signed == s # <<>> /\ s[1] \in {"+", "-"}
        ds == IF signed THEN Tail(s) ELSE s
        wellFormed ==
            /\ ds # <<>>
            /\ IsDigit(ds[1])
            /\ IsDigit(ds[Len(ds)])
            /\ \A j \in 1..Len(ds) : IsDigit(ds[j]) \/ ds[j] = "_"
            /\ \A j \in 1..(Len(ds) - 1) : ~(ds[j] = "_" /\ ds[j + 1] = "_")
    IN  IF ~wellFormed THEN [ok |-> FALSE, val |-> 0]
        ELSE [ok |-> TRUE,
              val |-> IF signed /\ s[1] = "-" THEN 0 - DigitsValue(ds, 0)
                      ELSE DigitsValue(ds, 0)]

\* lines 627-637: what a non-empty part becomes
ParsePart(part, quotes, wildcard_chr) ==
    IF part[1] \in quotes /\ part[1] = part[Len(part)]
    THEN SegStr(SubSeq(part, 2, Len(part) - 1))
    ELSE IF part = wildcard_chr THEN WILDCARD_OBJ
    ELSE LET n == int(part)
         IN  IF n.ok THEN SegInt(n.val) ELSE SegStr(part)

\* lines 621-645: the scan of path + sep_chr from position i on (1-based);
\* quote = "" stands for None
RECURSIVE ParseScan(_, _, _, _, _, _, _, _)
ParseScan(path, i, last, quote, result, sep, quotes, wildcard_chr) ==
    IF i > Len(path) THEN result
    ELSE LET c == path[i]
         IN  IF c = sep /\ quote = ""
             THEN LET part == SubSeq(path, last + 1, i - 1)
                  IN  ParseScan(path, i + 1, i, quote,
                                IF part # <<>>
                                THEN Append(result, ParsePart(part, quotes, wildcard_chr))
                                ELSE result,
                                sep, quotes, wildcard_chr)
             ELSE IF quote = "" /\ c \in quotes
             THEN ParseScan(path, i + 1, last, c, result, sep, quotes, wildcard_chr)
             ELSE IF quote = c
             THEN ParseScan(path, i + 1, last, "", result, sep, quotes, wildcard_chr)
             ELSE ParseScan(path, i + 1, last, quote, result, sep, quotes, wildcard_chr)

\* parse(path, sep_chr, quote_chr, wildcard_chr); the options are character
\* sequences, <<>> standing for None (and for "", which the code treats alike)
parse(path, sep_chr, quote_chr, wildcard_chr) ==
    IF Len(sep_chr) # 1 THEN Raise("ValueError")
    ELSE IF quote_chr # <<>> /\ Len(quote_chr) # 1 THEN Raise("ValueError")
    ELSE IF wildcard_chr # <<>> /\ Len(wildcard_chr) # 1 THEN Raise("ValueError")
    ELSE LET quotes == IF quote_chr # <<>> THEN {quote_chr[1]} ELSE {"\"", "'"}
         IN  Ok(ParseScan(path \o sep_chr, 1, 0, "", <<>>,
                          sep_chr[1], quotes, wildcard_chr))

\* The keyword arguments handed on to parse
DefaultArgs == [sep_chr |-> SEP_CHR, quote_chr |-> <<>>, wildcard_chr |-> <<>>]

\* A path argument is a string, [str |-> TRUE, text |-> chars], or an
\* iterable of segments, [str |-> FALSE, segs |-> <<segment, ...>>]
TextPath(text) == [str |-> TRUE, text |-> text]
SegPath(segs) == [str |-> FALSE, segs |-> segs]

\* `not path`
EmptyArg(path) == IF path.str THEN path.text = <<>> ELSE path.segs = <<>>

_try_parse(path, autoparse, args) ==
    IF path.str
    THEN IF autoparse
         THEN parse(path.text, args.sep_chr, args.quote_chr, args.wildcard_chr)
         ELSE Raise("TypeError")
    ELSE Ok(path.segs)

-----------------------------------------------------------------------------
(* Traversal and the accessors *)

RECURSIVE _traverse(_, _)
_traverse(node, path) ==
    IF path = <<>> THEN Ok(node)
    ELSE LET r == GetItem(node, path[1])
         IN  IF r.exc # "none" THEN r ELSE _traverse(r.val, Tail(path))

Last(s) == s[Len(s)]
Front(s) == SubSeq(s, 1, Len(s) - 1)

get(o, path, default, autoparse, args) ==
    IF EmptyArg(path) THEN Ok(o)
    ELSE LET p == _try_parse(path, autoparse, args)
         IN  IF p.exc # "none" THEN p
             ELSE LET r == _traverse(o, p.val)
                  IN  IF r.exc \in {"KeyError", "IndexError"} /\ default # Undefined
                      THEN Ok(default)
                      ELSE r

\* A mutator's outcome also carries the structure as the call leaves it
Done(o) == [exc |-> "none", val |-> o, obj |-> o]
Fail(e, o) == [exc |-> e, val |-> NoneLeaf, obj |-> o]

\* A slip the claims must notice: every index out of range appends.
SetLast_AppendsAnyIndex(o, where, cur, path, value) ==
    IF path = <<>> THEN Fail("IndexError", o)
    ELSE LET w == SetItem(cur, Last(path), value)
         IN  IF w.exc = "none" THEN Done(Rebind(o, where, w.val))
             ELSE IF w.exc = "IndexError"
             THEN Done(Rebind(o, where, Sequence(Append(cur.items, value))))
             ELSE Fail(w.exc, o)

\* lines 163-169 of set, with cur the object at `where`
SetLast(o, where, cur, path, value) ==
    IF path = <<>> THEN Fail("IndexError", o)    \* path[-1] of an empty tuple
    ELSE LET w == SetItem(cur, Last(path), value)
         IN  IF w.exc = "none" THEN Done(Rebind(o, where, w.val))
             ELSE IF w.exc = "IndexError"
             THEN IF Last(path) = SegInt(PyLen(cur))
                  THEN Done(Rebind(o, where, Sequence(Append(cur.items, value))))
                  ELSE Fail("IndexError", o)
             ELSE Fail(w.exc, o)

set(o, path, value, autoparse, args) ==
    IF EmptyArg(path) THEN Fail("ValueError", o)
    ELSE LET p == _try_parse(path, autoparse, args)
         IN  IF p.exc # "none" THEN Fail(p.exc, o)
             ELSE LET where == IF p.val = <<>> THEN <<>> ELSE Front(p.val)
                      cur == _traverse(o, where)
                  IN  IF cur.exc # "none" THEN Fail(cur.exc, o)
                      ELSE SetLast(o, where, cur.val, p.val, value)

delete(o, path, autoparse, args) ==
    IF EmptyArg(path) THEN Fail("ValueError", o)
    ELSE LET p == _try_parse(path, autoparse, args)
         IN  IF p.exc # "none" THEN Fail(p.exc, o)
             ELSE LET where == IF p.val = <<>> THEN <<>> ELSE Front(p.val)
                      cur == _traverse(o, where)
                  IN  IF cur.exc # "none" THEN Fail(cur.exc, o)
                      ELSE IF p.val = <<>> THEN Fail("IndexError", o)
                      ELSE LET d == DelItem(cur.val, Last(p.val))
                           IN  IF d.exc # "none" THEN Fail(d.exc, o)
                               ELSE Done(Rebind(o, where, d.val))

\* The transforms handed to update: what func(x) returns or raises
Apply(func, x) ==
    CASE func.f = "const" -> Ok(func.v)                       \* lambda x: v
      [] func.f = "incr" ->                                   \* lambda x: x + 1
            IF x.k = "int" THEN Ok(IntLeaf(x.n + 1)) ELSE Raise("TypeError")
      [] OTHER -> Ok(Sequence(<<x>>))                         \* lambda x: [x]

\* A slip the claims must notice: update writes the way set does, so that a
\* segment that does not exist yet is created from func(None).
update_Creates(o, path, func, autoparse, args) ==
    IF EmptyArg(path) THEN Fail("ValueError", o)
    ELSE LET p == _try_parse(path, autoparse, args)
         IN  IF p.exc # "none" THEN Fail(p.exc, o)
             ELSE LET where == IF p.val = <<>> THEN <<>> ELSE Front(p.val)
                      cur == _traverse(o, where)
                  IN  IF cur.exc # "none" THEN Fail(cur.exc, o)
                      ELSE IF p.val = <<>> THEN Fail("IndexError", o)
                      ELSE LET old == GetItem(cur.val, Last(p.val))
                               new == Apply(func, IF old.exc = "none" THEN old.val
                                                  ELSE NoneLeaf)
                           IN  IF old.exc = "TypeError" THEN Fail(old.exc, o)
                               ELSE IF new.exc # "none" THEN Fail(new.exc, o)
                               ELSE SetLast(o, where, cur.val, p.val, new.val)

update(o, path, func, autoparse, args) ==
    IF EmptyArg(path) THEN Fail("ValueError", o)
    ELSE LET p == _try_parse(path, autoparse, args)
         IN  IF p.exc # "none" THEN Fail(p.exc, o)
             ELSE LET where == IF p.val = <<>> THEN <<>> ELSE Front(p.val)
                      cur == _traverse(o, where)
                  IN  IF cur.exc # "none" THEN Fail(cur.exc, o)
                      ELSE IF p.val = <<>> THEN Fail("IndexError", o)
                      ELSE LET old == GetItem(cur.val, Last(p.val))
                               new == Apply(func, old.val)
                               w == SetItem(cur.val, Last(p.val), new.val)
                           IN  IF old.exc # "none" THEN Fail(old.exc, o)
                               ELSE IF new.exc # "none" THEN Fail(new.exc, o)
                               ELSE IF w.exc # "none" THEN Fail(w.exc, o)
                               ELSE Done(Rebind(o, where, w.val))

-----------------------------------------------------------------------------
(* flatten and unflatten *)

Entry(path, val) == [path |-> path, val |-> val]

\* A slip the claims must notice: every container is yielded as a dict.
EmptyLike_AlwaysDict(node) == Mapping(<<>>)

\* obj.__class__(): a new empty container of the node's class
EmptyLike(node) == IF node.k = "map" THEN Mapping(<<>>) ELSE Sequence(<<>>)

\* what lines 318-319 and 323-324 append to the queue for a container
Children(node, path) ==
    IF node.k = "map"
    THEN [j \in 1..Len(node.items) |->
             [obj |-> node.items[j].val, path |-> Append(path, node.items[j].key)]]
    ELSE [j \in 1..Len(node.items) |->
             [obj |-> node.items[j], path |-> Append(path, SegInt(j - 1))]]

\* A slip the claims must notice: the children go to the front of the queue
\* (a stack, depth first).
RECURSIVE FlattenLoop_DepthFirst(_, _, _)
FlattenLoop_DepthFirst(queue, only_leaves, out) ==
    IF queue = <<>> THEN out
    ELSE LET o == Head(queue).obj
             path == Head(queue).path
         IN  IF IsContainer(o)
             THEN FlattenLoop_DepthFirst(Children(o, path) \o Tail(queue), only_leaves,
                              IF ~only_leaves THEN Append(out, Entry(path, EmptyLike(o)))
                              ELSE out)
             ELSE FlattenLoop_DepthFirst(Tail(queue), only_leaves,
                                         Append(out, Entry(path, o)))

\* lines 313-326: the loop over the queue; out is what has been yielded
RECURSIVE FlattenLoop(_, _, _)
FlattenLoop(queue, only_leaves, out) ==
    IF queue = <<>> THEN out
    ELSE LET o == Head(queue).obj
             path == Head(queue).path
         IN  IF IsContainer(o)
             THEN FlattenLoop(Tail(queue) \o Children(o, path), only_leaves,
                              IF ~only_leaves THEN Append(out, Entry(path, EmptyLike(o)))
                              ELSE out)
             ELSE FlattenLoop(Tail(queue), only_leaves, Append(out, Entry(path, o)))

\* everything the generator yields, in order
flatten(o, only_leaves) ==
    IF Falsy(o) THEN <<>>
    ELSE FlattenLoop(<<[obj |-> o, path |-> <<>>]>>, only_leaves, <<>>)

\* sorted(paths, key=lambda x: len(x[0])): stable, by ascending path length
RECURSIVE SortFrom(_, _)
SortFrom(paths, len) ==
    IF \A j \in 1..Len(paths) : Len(paths[j].path) < len THEN <<>>
    ELSE SelectSeq(paths, LAMBDA e : Len(e.path) = len) \o SortFrom(paths, len + 1)

\* A slip the claims must notice: the entries are not sorted.
SortedByLen_AsGiven(paths) == paths

SortedByLen(paths) == SortFrom(paths, 0)

\* lines 383-386: the entries after the first, set one by one on obj
RECURSIVE Replay(_, _)
Replay(o, paths) ==
    IF paths = <<>> THEN Ok(o)
    ELSE IF Len(paths[1].path) < 1 THEN Raise("ValueError")
    ELSE LET r == set(o, SegPath(paths[1].path), paths[1].val, TRUE, DefaultArgs)
         IN  IF r.exc # "none" THEN Raise(r.exc) ELSE Replay(r.obj, Tail(paths))

\* unflatten(paths, sort); isList tells a list argument from a generator,
\* which is true (`not paths` is false) even when it yields nothing
unflatten(paths, sort, isList) ==
    IF isList /\ paths = <<>> THEN Ok(NoneLeaf)
    ELSE LET ordered == IF sort THEN SortedByLen(paths) ELSE paths
         IN  IF ordered = <<>> THEN Raise("StopIteration")    \* next(paths)
             ELSE IF Len(ordered[1].path) # 0 THEN Raise("ValueError")
             ELSE Replay(ordered[1].val, Tail(ordered))

-----------------------------------------------------------------------------
(* match and fullmatch *)

\* A slip the claims must notice: a path longer than the pattern matches even
\* when the whole path must match.
RECURSIVE MatchWalk_IgnoresFull(_, _, _, _)
MatchWalk_IgnoresFull(path, pattern, full, wildcard_obj) ==
    IF pattern = <<>> THEN TRUE
    ELSE IF path = <<>> THEN FALSE
    ELSE IF pattern[1] = wildcard_obj
    THEN MatchWalk_IgnoresFull(Tail(path), Tail(pattern), full, wildcard_obj)
    ELSE IF pattern[1] # path[1] THEN FALSE
    ELSE MatchWalk_IgnoresFull(Tail(path), Tail(pattern), full, wildcard_obj)

\* lines 519-536: the pattern walked along the path
RECURSIVE MatchWalk(_, _, _, _)
MatchWalk(path, pattern, full, wildcard_obj) ==
    IF pattern = <<>>
    THEN IF path # <<>> THEN ~full ELSE TRUE
    ELSE IF path = <<>> THEN FALSE
    ELSE IF pattern[1] = wildcard_obj
    THEN MatchWalk(Tail(path), Tail(pattern), full, wildcard_obj)
    ELSE IF pattern[1] # path[1] THEN FALSE
    ELSE MatchWalk(Tail(path), Tail(pattern), full, wildcard_obj)

_match(path, pattern, full, wildcard_obj, autoparse, args) ==
    LET p == _try_parse(path, autoparse, args)
        q == _try_parse(pattern, autoparse, args)
    IN  IF p.exc # "none" THEN p
        ELSE IF q.exc # "none" THEN q
        ELSE Ok(MatchWalk(p.val, q.val, full, wildcard_obj))

\* any(_match(path, pattern, ...) for pattern in patterns): the patterns are
\* tried in order up to the first that matches or raises
RECURSIVE AnyMatch(_, _, _, _, _, _)
AnyMatch(path, patterns, full, wildcard_obj, autoparse, args) ==
    IF patterns = <<>> THEN Ok(FALSE)
    ELSE LET r == _match(path, patterns[1], full, wildcard_obj, autoparse, args)
         IN  IF r.exc # "none" THEN r
             ELSE IF r.val THEN Ok(TRUE)
             ELSE AnyMatch(path, Tail(patterns), full, wildcard_obj, autoparse, args)

match(path, patterns, autoparse, args) ==
    AnyMatch(path, patterns, FALSE, WILDCARD_OBJ, autoparse, args)

fullmatch(path, patterns, autoparse, args) ==
    AnyMatch(path, patterns, TRUE, WILDCARD_OBJ, autoparse, args)

-----------------------------------------------------------------------------
(* The inputs the calls are drawn from *)

MaxNodes == 3       \* nodes of the structure the accessors are called on
MaxTextLen == 2     \* characters of a string path argument

Keys == {<<"a">>, <<"b">>}
LeafVals == {IntLeaf(0), StrLeaf(<<"x">>)}

\* the orders in which n distinct keys can have been inserted
KeySeqs(n) ==
    {ks \in [1..n -> Keys] : \A i, j \in 1..n : i # j => ks[i] # ks[j]}

\* Forest(s): the sequences of structures with s nodes in all;
\* Sized(s): the structures with exactly s nodes
RECURSIVE Forest(_), Sized(_)
Sized(s) ==
    (IF s = 1 THEN LeafVals ELSE {})
    \cup {Sequence(f) : f \in Forest(s - 1)}
    \cup UNION {{Mapping([i \in 1..Len(f) |-> [key |-> SegStr(ks[i]), val |-> f[i]]])
                    : ks \in KeySeqs(Len(f))} : f \in Forest(s - 1)}
Forest(s) ==
    IF s = 0 THEN {<<>>}
    ELSE UNION {{<<t>> \o f : t \in Sized(a), f \in Forest(s - a)} : a \in 1..s}

Structures == UNION {Sized(s) : s \in 1..MaxNodes}

RECURSIVE SeqsOver(_, _)
SeqsOver(S, n) ==
    IF n = 0 THEN {<<>>}
    ELSE SeqsOver(S, n - 1)
         \cup {Append(q, x) : q \in {r \in SeqsOver(S, n - 1) : Len(r) = n - 1}, x \in S}

\* every path that reaches a node of the structure, a Sequence element by
\* its index from the front and by its index from the end
RECURSIVE Reaching(_)
Reaching(node) ==
    {<<>>} \cup
    (CASE node.k = "map" ->
            UNION {{<<node.items[j].key>> \o q : q \in Reaching(node.items[j].val)}
                      : j \in 1..Len(node.items)}
       [] node.k = "seq" ->
            UNION {{<<SegInt(i)>> \o q : q \in Reaching(node.items[j]),
                                         i \in {j - 1, j - 1 - Len(node.items)}}
                      : j \in 1..Len(node.items)}
       [] OTHER -> {})

\* the longest list or string of a structure
RECURSIVE Longest(_)
Longest(node) ==
    CASE node.k = "map" ->
            IF node.items = <<>> THEN 0
            ELSE CHOOSE m \in {Longest(node.items[j].val) : j \in 1..Len(node.items)} :
                    \A j \in 1..Len(node.items) : Longest(node.items[j].val) <= m
      [] node.k = "seq" ->
            CHOOSE m \in {Len(node.items)} \cup {Longest(node.items[j]) : j \in 1..Len(node.items)} :
                /\ Len(node.items) <= m
                /\ \A j \in 1..Len(node.items) : Longest(node.items[j]) <= m
      [] node.k = "str" -> Len(node.s)
      [] OTHER -> 0

\* the keys, and every index from one before the first valid index of the
\* longest list to one past its append index
SegmentsFor(node) ==
    {SegStr(key) : key \in Keys}
    \cup {SegInt(i) : i \in (0 - Longest(node) - 1)..(Longest(node) + 1)}

\* a path that reaches a node, then possibly one more segment (an existing
\* node again, a new last segment of an existing parent, or a segment that is
\* missing), then possibly a further one (so that a missing segment is met
\* before the last)
Further == {<<>>, <<SegStr(<<"a">>)>>, <<SegInt(0)>>}
PathsFor(node) ==
    Reaching(node)
    \cup {q \o <<x>> \o e : q \in Reaching(node), x \in SegmentsFor(node), e \in Further}

PathChars == {"a", ".", "1"}
PathArgs(node) ==
    {SegPath(p) : p \in PathsFor(node)}
    \cup {TextPath(t) : t \in SeqsOver(PathChars, MaxTextLen)}

Values == {IntLeaf(7), Mapping(<<>>)}
Defaults == {Undefined, IntLeaf(9)}
Funcs == {[f |-> "const", v |-> IntLeaf(7)], [f |-> "incr"], [f |-> "wrap"]}

NoCall == [name |-> "none"]

-----------------------------------------------------------------------------
(* The accessors, called on a structure the caller built *)

Init ==
    /\ obj \in Structures
    /\ pre = obj
    /\ call = NoCall
    /\ res = Ok(NoneLeaf)
    /\ flat = <<>>

Get ==
    /\ call = NoCall
    /\ \E path \in PathArgs(obj), default \in Defaults :
       \E autoparse \in (IF path.str THEN BOOLEAN ELSE {TRUE}) :
          /\ call' = [name |-> "get", path |-> path, default |-> default,
                      autoparse |-> autoparse]
          /\ res' = get(obj, path, default, autoparse, DefaultArgs)
    /\ pre' = obj
    /\ UNCHANGED <<obj, flat>>

Set ==
    /\ call = NoCall
    /\ \E path \in PathArgs(obj), value \in Values :
       \E autoparse \in (IF path.str THEN BOOLEAN ELSE {TRUE}) :
          LET r == set(obj, path, value, autoparse, DefaultArgs)
          IN  /\ call' = [name |-> "set", path |-> path, value |-> value,
                          autoparse |-> autoparse]
              /\ res' = [exc |-> r.exc, val |-> r.val]
              /\ obj' = r.obj
    /\ pre' = obj
    /\ UNCHANGED flat

Delete ==
    /\ call = NoCall
    /\ \E path \in PathArgs(obj) :
       \E autoparse \in (IF path.str THEN BOOLEAN ELSE {TRUE}) :
          LET r == delete(obj, path, autoparse, DefaultArgs)
          IN  /\ call' = [name |-> "delete", path |-> path, autoparse |-> autoparse]
              /\ res' = [exc |-> r.exc, val |-> r.val]
              /\ obj' = r.obj
    /\ pre' = obj
    /\ UNCHANGED flat

Update ==
    /\ call = NoCall
    /\ \E path \in PathArgs(obj), func \in Funcs :
       \E autoparse \in (IF path.str THEN BOOLEAN ELSE {TRUE}) :
          LET r == update(obj, path, func, autoparse, DefaultArgs)
          IN  /\ call' = [name |-> "update", path |-> path, func |-> func,
                          autoparse |-> autoparse]
              /\ res' = [exc |-> r.exc, val |-> r.val]
              /\ obj' = r.obj
    /\ pre' = obj
    /\ UNCHANGED flat

Next == Get \/ Set \/ Delete \/ Update

Spec == Init /\ [][Next]_vars

-----------------------------------------------------------------------------
(* flatten and unflatten, called on a structure the caller built *)

MaxFlatNodes == 4   \* nodes of the structure that is flattened

FlatStructures == UNION {Sized(s) : s \in 1..MaxFlatNodes}

InitFlat ==
    /\ obj \in FlatStructures
    /\ pre = obj
    /\ call = NoCall
    /\ res = Ok(NoneLeaf)
    /\ flat = <<>>

\* list(flatten(obj, only_leaves))
Flatten ==
    /\ call = NoCall
    /\ \E only_leaves \in BOOLEAN :
          /\ call' = [name |-> "flatten", only_leaves |-> only_leaves]
          /\ flat' = flatten(obj, only_leaves)
    /\ pre' = obj
    /\ res' = Ok(NoneLeaf)
    /\ UNCHANGED obj

\* unflatten(flatten(obj)): the generator handed over as it is
RoundTrip ==
    /\ call = NoCall
    /\ call' = [name |-> "roundtrip"]
    /\ res' = unflatten(flatten(obj, FALSE), FALSE, FALSE)
    /\ flat' = flatten(obj, FALSE)
    /\ pre' = obj
    /\ UNCHANGED obj

Reordered(s, perm) == [j \in 1..Len(s) |-> s[perm[j]]]

\* unflatten(E, sort) on a list E holding the entries of the last
\* flatten(obj) in some order
Unflatten ==
    /\ call.name = "flatten" /\ ~call.only_leaves
    /\ \E perm \in Permutations(1..Len(flat)), sort \in BOOLEAN :
          /\ call' = [name |-> "unflatten", paths |-> Reordered(flat, perm),
                      sort |-> sort]
          /\ res' = unflatten(Reordered(flat, perm), sort, TRUE)
    /\ pre' = obj
    /\ UNCHANGED <<obj, flat>>

NextFlat == Flatten \/ RoundTrip \/ Unflatten

SpecFlat == InitFlat /\ [][NextFlat]_vars

-----------------------------------------------------------------------------
(* match and fullmatch, called on paths and patterns *)

MaxMatchLen == 2    \* segments of a path or pattern handed to the matcher

MatchSegments == {SegStr(<<"a">>), SegInt(0), WILDCARD_OBJ}
MatchTexts == {<<>>, <<"a">>, <<"*", ".", "0">>}
MatchArgs == [sep_chr |-> SEP_CHR, quote_chr |-> <<>>, wildcard_chr |-> <<"*">>]

\* a path or a pattern: structured, or a string to be parsed
MatchPaths ==
    {SegPath(p) : p \in SeqsOver(MatchSegments, MaxMatchLen)}
    \cup {TextPath(t) : t \in MatchTexts}

\* no pattern, one pattern or two
PatternLists ==
    {<<>>} \cup {<<p>> : p \in MatchPaths} \cup {<<p, q>> : p, q \in MatchPaths}

\* the arguments of the call to come
InitMatch ==
    /\ obj = NoneLeaf
    /\ pre = NoneLeaf
    /\ call \in {[name |-> "args", path |-> path, patterns |-> patterns,
                  autoparse |-> autoparse]
                    : path \in MatchPaths, patterns \in PatternLists,
                      autoparse \in BOOLEAN}
    /\ res = Ok(NoneLeaf)
    /\ flat = <<>>

Match ==
    /\ call.name = "args"
    /\ call' = [call EXCEPT !.name = "match"]
    /\ res' = match(call.path, call.patterns, call.autoparse, MatchArgs)
    /\ UNCHANGED <<obj, pre, flat>>

FullMatch ==
    /\ call.name = "args"
    /\ call' = [call EXCEPT !.name = "fullmatch"]
    /\ res' = fullmatch(call.path, call.patterns, call.autoparse, MatchArgs)
    /\ UNCHANGED <<obj, pre, flat>>

NextMatch == Match \/ FullMatch

SpecMatch == InitMatch /\ [][NextMatch]_vars

-----------------------------------------------------------------------------
(* parse, called on a text *)

MaxParseLen == 4    \* characters of the text handed to parse

ParseChars == {"a", "1", "-", ".", "'", "\"", "*"}
ParseArgs ==
    {[sep_chr |-> SEP_CHR, quote_chr |-> q, wildcard_chr |-> w]
        : q \in {<<>>, <<"'">>, <<"'", "'">>}, w \in {<<>>, <<"*">>}}

\* the arguments of the call to come
InitParse ==
    /\ obj = NoneLeaf
    /\ pre = NoneLeaf
    /\ call \in {[name |-> "args", text |-> text, args |-> args]
                    : text \in SeqsOver(ParseChars, MaxParseLen), args \in ParseArgs}
    /\ res = Ok(NoneLeaf)
    /\ flat = <<>>

Parse ==
    /\ call.name = "args"
    /\ call' = [call EXCEPT !.name = "parse"]
    /\ res' = parse(call.text, call.args.sep_chr, call.args.quote_chr,
                    call.args.wildcard_chr)
    /\ UNCHANGED <<obj, pre, flat>>

NextParse == Parse

SpecParse == InitParse /\ [][NextParse]_vars

-----------------------------------------------------------------------------
(* The vocabulary of the claims about the accessors: the data model's own  *)
(* notion of a path that resolves in a structure.                          *)

\* the segments the last call's path stands for
CallPath == _try_parse(call.path, call.autoparse, DefaultArgs)

\* a Mapping holds the key; a Sequence holds the index, counted from the end
\* when negative; a Leaf holds nothing
Holds(node, seg) ==
    CASE node.k = "map" -> \E j \in 1..Len(node.items) : node.items[j].key = seg
      [] node.k = "seq" ->
            seg.t = "int" /\ seg.i < Len(node.items) /\ seg.i >= 0 - Len(node.items)
      [] OTHER -> FALSE

\* the position of a held segment among the node's items, and the segment
\* that names the item at a position
Pos(node, seg) ==
    IF node.k = "map"
    THEN CHOOSE j \in 1..Len(node.items) : node.items[j].key = seg
    ELSE IF seg.i >= 0 THEN seg.i + 1 ELSE Len(node.items) + seg.i + 1

SegAt(node, j) == IF node.k = "map" THEN node.items[j].key ELSE SegInt(j - 1)

Child(node, seg) ==
    IF node.k = "map" THEN node.items[Pos(node, seg)].val
    ELSE node.items[Pos(node, seg)]

RECURSIVE Resolves(_, _)
Resolves(node, path) ==
    path = <<>> \/ (Holds(node, path[1]) /\ Resolves(Child(node, path[1]), Tail(path)))

RECURSIVE NodeAt(_, _)
NodeAt(node, path) ==
    IF path = <<>> THEN node ELSE NodeAt(Child(node, path[1]), Tail(path))

\* the same path with every Sequence index counted from the front
RECURSIVE Canon(_, _)
Canon(node, path) ==
    IF path = <<>> THEN <<>>
    ELSE <<IF node.k = "seq" /\ path[1].i < 0
           THEN SegInt(Len(node.items) + path[1].i) ELSE path[1]>>
         \o Canon(Child(node, path[1]), Tail(path))

\* every node of a structure, by its path
RECURSIVE PathsOf(_)
PathsOf(node) ==
    {<<>>} \cup
    (CASE node.k = "map" ->
            UNION {{<<node.items[j].key>> \o q : q \in PathsOf(node.items[j].val)}
                      : j \in 1..Len(node.items)}
       [] node.k = "seq" ->
            UNION {{<<SegInt(j - 1)>> \o q : q \in PathsOf(node.items[j])}
                      : j \in 1..Len(node.items)}
       [] OTHER -> {})

IsPrefix(p, q) == Len(p) <= Len(q) /\ SubSeq(q, 1, Len(p)) = p

\* what a node is by itself: its kind, with a Mapping's keys in order, a
\* Sequence's length or a Leaf's value
Shape(node) ==
    CASE node.k = "map" -> <<"map", [j \in 1..Len(node.items) |-> node.items[j].key]>>
      [] node.k = "seq" -> <<"seq", Len(node.items)>>
      [] OTHER -> <<"leaf", node>>

\* a and b differ at most at the node at path t and below it
SameOutside(a, b, t) ==
    \A q \in PathsOf(a) \cup PathsOf(b) :
        ~IsPrefix(t, q) =>
            /\ Resolves(a, q) /\ Resolves(b, q)
            /\ Shape(NodeAt(a, q)) = Shape(NodeAt(b, q))

\* the last call named a parent that exists and a last segment
HasParent ==
    /\ CallPath.exc = "none"
    /\ CallPath.val # <<>>
    /\ Resolves(pre, Front(CallPath.val))

ParentPath == Canon(pre, Front(CallPath.val))
ParentBefore == NodeAt(pre, ParentPath)
ParentAfter == NodeAt(obj, ParentPath)
LastSeg == Last(CallPath.val)

-----------------------------------------------------------------------------
(* C2 *)

\* C2 (as claimed): get with a default supplied never fails; it returns the
\* node at the path when every segment resolves and the default on every
\* lookup failure (missing key, index out of range, string segment on a
\* Sequence, integer segment a Mapping lacks, any segment on a Leaf); without
\* a default the same failures surface as KeyError or IndexError.
C2_GetDefaultNeverFails ==
    (call.name = "get" /\ CallPath.exc = "none") =>
        IF Resolves(pre, CallPath.val)
        THEN res = Ok(NodeAt(pre, CallPath.val))
        ELSE IF call.default # Undefined
        THEN res = Ok(call.default)
        ELSE res.exc \in {"KeyError", "IndexError"}

-----------------------------------------------------------------------------
(* C3 *)

\* C3: set on a Sequence parent of length n with an integer last segment i:
\* i = n appends (length n + 1, the value last, the earlier elements as they
\* were); -n <= i < n overwrites exactly the element at the resolved index and
\* keeps the length; i > n or i < -n fails with IndexError and leaves the
\* whole structure unchanged.
C3_SetAppendBoundary ==
    (call.name = "set" /\ HasParent /\ ParentBefore.k = "seq" /\ LastSeg.t = "int") =>
        LET n == Len(ParentBefore.items)
            i == LastSeg.i
            old == ParentBefore.items
        IN  /\ i = n =>
                /\ res.exc = "none"
                /\ ParentAfter.k = "seq"
                /\ Len(ParentAfter.items) = n + 1
                /\ ParentAfter.items[n + 1] = call.value
                /\ \A j \in 1..n : ParentAfter.items[j] = old[j]
            /\ (i < n /\ i >= 0 - n) =>
                /\ res.exc = "none"
                /\ ParentAfter.k = "seq"
                /\ Len(ParentAfter.items) = n
                /\ \A j \in 1..n :
                      ParentAfter.items[j] =
                          IF j = (IF i >= 0 THEN i + 1 ELSE n + i + 1)
                          THEN call.value ELSE old[j]
            /\ (i > n \/ i < 0 - n) =>
                /\ res.exc = "IndexError"
                /\ obj = pre

\* C3 witness: a value was appended to a Sequence that already held an element
C3_Witness ==
    /\ call.name = "set" /\ HasParent /\ ParentBefore.k = "seq" /\ LastSeg.t = "int"
    /\ Len(ParentBefore.items) >= 1
    /\ LastSeg.i = Len(ParentBefore.items)
    /\ res.exc = "none"
    /\ Len(ParentAfter.items) = Len(ParentBefore.items) + 1

-----------------------------------------------------------------------------
(* C4 *)

\* C4: whenever set(S, P, v) succeeds (on an existing node, a new Mapping key
\* or the append index of a Sequence), get(set(S, P, v), P) returns v, and set
\* returns the root it was given, mutated in place.
C4_GetSetInverse ==
    (call.name = "set" /\ res.exc = "none") =>
        /\ get(obj, call.path, Undefined, call.autoparse, DefaultArgs) = Ok(call.value)
        /\ res.val = obj
        /\ SameOutside(pre, obj, ParentPath)

\* C4 witness: set succeeded by appending below the root, and the structure changed
C4_Witness ==
    /\ call.name = "set" /\ res.exc = "none"
    /\ Len(CallPath.val) = 2
    /\ ParentBefore.k = "seq"
    /\ LastSeg = SegInt(Len(ParentBefore.items))
    /\ obj # pre

-----------------------------------------------------------------------------
(* C5 *)

\* C5: update never appends or inserts: when the last segment does not exist
\* in the parent (an absent Mapping key, a Sequence index outside the valid
\* range, index = length included) it fails with KeyError / IndexError and
\* leaves the structure unchanged; when the segment exists, the value at
\* exactly that segment becomes f(old value) and nothing else changes.
C5_UpdateNeverAppends ==
    (call.name = "update" /\ HasParent) =>
        /\ (ParentBefore.k = "map" /\ ~Holds(ParentBefore, LastSeg)) =>
              res.exc = "KeyError" /\ obj = pre
        /\ (ParentBefore.k = "seq" /\ LastSeg.t = "int" /\ ~Holds(ParentBefore, LastSeg)) =>
              res.exc = "IndexError" /\ obj = pre
        /\ (Holds(ParentBefore, LastSeg)
            /\ Apply(call.func, Child(ParentBefore, LastSeg)).exc = "none") =>
              /\ res.exc = "none"
              /\ res.val = obj
              /\ Shape(ParentAfter) = Shape(ParentBefore)
              /\ \A j \in 1..PyLen(ParentBefore) :
                    Child(ParentAfter, SegAt(ParentBefore, j)) =
                        IF j = Pos(ParentBefore, LastSeg)
                        THEN Apply(call.func, Child(ParentBefore, LastSeg)).val
                        ELSE Child(ParentBefore, SegAt(ParentBefore, j))
              /\ SameOutside(pre, obj, ParentPath)

\* C5 witness: update at index = length of a non-empty Sequence was refused
C5_Witness ==
    /\ call.name = "update" /\ HasParent
    /\ ParentBefore.k = "seq" /\ Len(ParentBefore.items) >= 1
    /\ LastSeg = SegInt(Len(ParentBefore.items))
    /\ res.exc = "IndexError"

-----------------------------------------------------------------------------
(* C9 *)

-----------------------------------------------------------------------------
(* The vocabulary of the claims about flatten and unflatten *)

\* deep equality as Python's == decides it: Mappings by their keys and the
\* values under them, whatever the insertion order; Sequences element by
\* element; Leaves by value
RECURSIVE DeepEq(_, _)
DeepEq(a, b) ==
    /\ a.k = b.k
    /\ CASE a.k = "map" ->
              /\ Len(a.items) = Len(b.items)
              /\ \A i \in 1..Len(a.items) : \E j \in 1..Len(b.items) :
                    /\ a.items[i].key = b.items[j].key
                    /\ DeepEq(a.items[i].val, b.items[j].val)
         [] a.k = "seq" ->
              /\ Len(a.items) = Len(b.items)
              /\ \A i \in 1..Len(a.items) : DeepEq(a.items[i], b.items[i])
         [] OTHER -> a = b

\* the position of the entry with a given path
EntryIndex(es, path) == CHOOSE j \in 1..Len(es) : es[j].path = path

-----------------------------------------------------------------------------
(* C1 *)

\* C1 (as claimed): for every structure S, an empty container as the root
\* included, unflatten(flatten(S)) returns a structure deep-equal to S.
C1_RoundTripAnyRoot ==
    call.name = "roundtrip" => (res.exc = "none" /\ DeepEq(res.val, pre))

\* C1 (amended): for every structure S whose root is not empty (a Mapping or
\* Sequence with at least one entry, or a Leaf that is not falsy), with empty
\* containers allowed anywhere below the root, unflatten(flatten(S)) returns a
\* structure deep-equal to S.
C1_RoundTrip ==
    (call.name = "roundtrip" /\ ~Falsy(pre)) =>
        (res.exc = "none" /\ DeepEq(res.val, pre))

\* C1 witness: the round trip of a structure that holds a Sequence and an
\* empty container below the root gave the structure back
C1_Witness ==
    /\ call.name = "roundtrip" /\ res.exc = "none"
    /\ \E q \in PathsOf(pre) : q # <<>> /\ NodeAt(pre, q).k = "seq"
    /\ \E q \in PathsOf(pre) :
          q # <<>> /\ IsContainer(NodeAt(pre, q)) /\ NodeAt(pre, q).items = <<>>
    /\ res.val = pre

-----------------------------------------------------------------------------
(* C7 *)

\* C7: flatten(S) with only_leaves false, for a non-empty root S, yields
\* exactly one entry per node of S in breadth-first order: the root entry with
\* the empty path first, path lengths never decreasing, every node's entry
\* before its children's, siblings in insertion / index order and the children
\* of an earlier node before those of a later one; a Mapping or Sequence node
\* is yielded as a new empty container of its kind and a Leaf as its value; S
\* is not modified.
C7_FlattenBreadthFirst ==
    (call.name = "flatten" /\ ~call.only_leaves /\ ~Falsy(pre)) =>
        /\ obj = pre
        /\ Len(flat) = Cardinality(PathsOf(pre))
        /\ {flat[j].path : j \in 1..Len(flat)} = PathsOf(pre)
        /\ flat[1].path = <<>>
        /\ \A j \in 1..(Len(flat) - 1) : Len(flat[j].path) <= Len(flat[j + 1].path)
        /\ \A j \in 2..Len(flat) : EntryIndex(flat, Front(flat[j].path)) < j
        /\ \A i, j \in 2..Len(flat) :
              (i < j /\ Len(flat[i].path) = Len(flat[j].path)) =>
                  LET pi == Front(flat[i].path)
                      pj == Front(flat[j].path)
                  IN  IF pi = pj
                      THEN Pos(NodeAt(pre, pi), Last(flat[i].path))
                               < Pos(NodeAt(pre, pj), Last(flat[j].path))
                      ELSE EntryIndex(flat, pi) < EntryIndex(flat, pj)
        /\ \A j \in 1..Len(flat) :
              LET node == NodeAt(pre, flat[j].path)
              IN  flat[j].val = CASE node.k = "map" -> Mapping(<<>>)
                                  [] node.k = "seq" -> Sequence(<<>>)
                                  [] OTHER -> node

\* C7 witness: a flattened structure in which the first child of the root has
\* a child of its own and a later sibling, which is yielded before that child
C7_Witness ==
    /\ call.name = "flatten" /\ ~call.only_leaves
    /\ Len(flat) = 4
    /\ Len(flat[2].path) = 1 /\ Len(flat[3].path) = 1 /\ Len(flat[4].path) = 2
    /\ Front(flat[4].path) = flat[2].path

-----------------------------------------------------------------------------
(* C8 *)

\* C8 (as claimed): for every non-empty structure S and every reordering E of
\* the entries of flatten(S), unflatten(E, sort=True) succeeds and returns a
\* structure deep-equal to S.
C8_SortRepairsAnyOrder ==
    (call.name = "unflatten" /\ call.sort /\ ~Falsy(pre)) =>
        (res.exc = "none" /\ DeepEq(res.val, pre))

\* the entries of the elements of one Sequence come in ascending index order
SequenceOrderKept(es) ==
    \A i, j \in 1..Len(es) :
        (/\ i < j
         /\ es[i].path # <<>> /\ es[j].path # <<>>
         /\ Front(es[i].path) = Front(es[j].path)
         /\ NodeAt(pre, Front(es[i].path)).k = "seq") =>
            Last(es[i].path).i < Last(es[j].path).i

\* C8 (amended): for every non-empty structure S and every reordering E of the
\* entries of flatten(S) that keeps the entries of each Sequence's elements in
\* ascending index order, unflatten(E, sort=True) succeeds and returns a
\* structure deep-equal to S.
C8_SortRepairsOrder ==
    (call.name = "unflatten" /\ call.sort /\ ~Falsy(pre)
        /\ SequenceOrderKept(call.paths)) =>
        (res.exc = "none" /\ DeepEq(res.val, pre))

\* C8 witness: a list of entries that began with the deepest entry, not with
\* the root's, was rebuilt with sort=True, Mapping keys in another order
C8_Witness ==
    /\ call.name = "unflatten" /\ call.sort /\ res.exc = "none"
    /\ Len(call.paths) = 4
    /\ Len(call.paths[1].path) = 2
    /\ res.val # pre
    /\ DeepEq(res.val, pre)

-----------------------------------------------------------------------------
(* C6 *)

\* the segments a path or pattern argument of the last call stands for
Parsed(arg) == _try_parse(arg, call.autoparse, MatchArgs).val

\* every argument of the last matcher call is a path
AllParsed ==
    /\ _try_parse(call.path, call.autoparse, MatchArgs).exc = "none"
    /\ \A i \in 1..Len(call.patterns) :
          _try_parse(call.patterns[i], call.autoparse, MatchArgs).exc = "none"

\* every segment of the pattern is the Wildcard or the path's segment there
Agrees(pattern, path) ==
    \A j \in 1..Len(pattern) : pattern[j] = WILDCARD_OBJ \/ pattern[j] = path[j]

\* C6: match(path, p1..pk) is true iff for some pi, len(pi) <= len(path) and
\* every segment of pi is the Wildcard or equals the path's segment at its
\* position; fullmatch is true iff the same holds for some pi with
\* len(pi) = len(path). Hence fullmatch implies match, a pattern longer than
\* the path never matches, and with no pattern both are false.
C6_MatcherSemantics ==
    (call.name \in {"match", "fullmatch"} /\ AllParsed) =>
        LET path == Parsed(call.path)
            pats == [i \in 1..Len(call.patterns) |-> Parsed(call.patterns[i])]
        IN  /\ call.name = "match" =>
                res = Ok(\E i \in 1..Len(pats) :
                            Len(pats[i]) <= Len(path) /\ Agrees(pats[i], path))
            /\ call.name = "fullmatch" =>
                /\ res = Ok(\E i \in 1..Len(pats) :
                               Len(pats[i]) = Len(path) /\ Agrees(pats[i], path))
                /\ res.val => match(call.path, call.patterns, call.autoparse, MatchArgs).val
            /\ (\A i \in 1..Len(pats) : Len(pats[i]) > Len(path)) => res = Ok(FALSE)

\* C6 witness: fullmatch refused a path of two segments whose first segment a
\* Wildcard pattern of length one agrees with, after a pattern that disagrees
C6_Witness ==
    /\ call.name = "fullmatch" /\ AllParsed
    /\ Len(call.patterns) = 2
    /\ Len(Parsed(call.path)) = 2
    /\ ~Agrees(Parsed(call.patterns[1]), Parsed(call.path))
    /\ Parsed(call.patterns[2]) = <<WILDCARD_OBJ>>
    /\ res = Ok(FALSE)
    /\ match(call.path, call.patterns, call.autoparse, MatchArgs) = Ok(TRUE)

-----------------------------------------------------------------------------
(* C10 *)

\* The reference of the claim: the text is read character by character; cur
\* is the segment being read, quote the open quote character ("" for none).
\* A separator outside quotes ends the segment, and so does the end of the text.
RECURSIVE RefSegments(_, _, _, _, _)
RefSegments(text, cur, quote, sep, quotes) ==
    IF text = <<>> THEN <<cur>>
    ELSE LET c == text[1]
         IN  IF quote = "" /\ c = sep
             THEN <<cur>> \o RefSegments(Tail(text), <<>>, "", sep, quotes)
             ELSE RefSegments(Tail(text), Append(cur, c),
                              IF quote = "" /\ c \in quotes THEN c
                              ELSE IF quote = c THEN ""
                              ELSE quote,
                              sep, quotes)

RefIsInteger(seg) ==
    LET ds == IF seg[1] \in {"+", "-"} THEN Tail(seg) ELSE seg
    IN  ds # <<>> /\ \A j \in 1..Len(ds) : IsDigit(ds[j])

RECURSIVE RefNumber(_)
RefNumber(ds) ==
    IF ds = <<>> THEN 0 ELSE 10 * RefNumber(Front(ds)) + DigitVal(Last(ds))

RefSegment(seg, quotes, wildcard_chr) ==
    IF seg[1] \in quotes /\ seg[Len(seg)] = seg[1] THEN SegStr(SubSeq(seg, 2, Len(seg) - 1))
    ELSE IF seg = wildcard_chr THEN WILDCARD_OBJ
    ELSE IF RefIsInteger(seg)
    THEN SegInt(IF seg[1] = "-" THEN 0 - RefNumber(Tail(seg))
                ELSE IF seg[1] = "+" THEN RefNumber(Tail(seg))
                ELSE RefNumber(seg))
    ELSE SegStr(seg)

RefParse(text, args) ==
    LET quotes == IF args.quote_chr # <<>> THEN {args.quote_chr[1]} ELSE {"\"", "'"}
        kept == SelectSeq(RefSegments(text, <<>>, "", args.sep_chr[1], quotes),
                          LAMBDA seg : seg # <<>>)
    IN  [j \in 1..Len(kept) |-> RefSegment(kept[j], quotes, args.wildcard_chr)]

ValidArgs(args) ==
    /\ Len(args.sep_chr) = 1
    /\ Len(args.quote_chr) <= 1
    /\ Len(args.wildcard_chr) <= 1

\* C10 (as claimed): parse(text, separatorChar, quoteChar?, wildcardChar?)
\* equals the reference: a left-to-right scan with an inside-quote /
\* outside-quote state, in which only a separator outside quotes ends a
\* segment; empty segments are dropped; each remaining segment is emitted as
\* its quote-stripped literal, as the Wildcard, as an integer or as the
\* unchanged string, in this priority. The empty string parses to the empty Path.
C10_ParseEqualsReference ==
    (call.name = "parse" /\ ValidArgs(call.args)) =>
        res = Ok(RefParse(call.text, call.args))

-----------------------------------------------------------------------------
(* Empty paths *)

\* the last call was given an empty path: an empty structured path, or a
\* string that parses to the empty Path
EmptyPathCall ==
    /\ call.name \in {"get", "set", "delete", "update"}
    /\ CallPath = Ok(<<>>)

\* C11 (as claimed): set, delete and update called with an empty path, given
\* as an empty structured path or as a string that parses to the empty Path
\* (the empty string, or a string made only of separators), fail with
\* ValueError (InvalidPathError) and leave the structure unchanged; get with
\* an empty path returns the root itself.
C11_EmptyPathRejected ==
    EmptyPathCall =>
        IF call.name = "get"
        THEN res = Ok(pre) /\ obj = pre
        ELSE res.exc = "ValueError" /\ obj = pre

====
